---------------------------- MODULE Spec2Model ----------------------------
(***************************************************************************)
(* Model of frappe_mailchimp/utils/transactional_email.py:                 *)
(*   send_email_with_template, _send_message, get_mailchimp_api_key,       *)
(*   _validate_template, _validate_recipients, create_vars_from_doc.       *)
(*                                                                         *)
(* Python values are tagged records [t, v]: t is the Python type, v the    *)
(* payload.  A str that holds JSON text is kept as the sequence of tokens  *)
(* json.loads lexes it into (tag "text"); every other str is atomic (tag   *)
(* "str", or "chars" where its characters are spelled out).  A dict is the  *)
(* sequence of its items in insertion order.                               *)
(***************************************************************************)
EXTENDS Integers, Sequences, FiniteSets, TLC

VARIABLES call, twin, env, doc, template_vars

vars == <<call, twin, env, doc, template_vars>>

---------------------------------------------------------------------------
(* Bounds of the model *)

\* longest recipients list drawn as an input
MaxRecipients == 2
\* longest variables list drawn as an input
MaxVariables == 1
\* most fields a document carries besides doctype and name
MaxFields == 2

---------------------------------------------------------------------------
(* Python values *)

None == [t |-> "none", v |-> <<>>]
Str(s) == [t |-> "str", v |-> s]
Num(n) == [t |-> "int", v |-> n]
Date(s) == [t |-> "date", v |-> s]
Chars(cs) == [t |-> "chars", v |-> cs]
Text(toks) == [t |-> "text", v |-> toks]
List(xs) == [t |-> "list", v |-> xs]
Tuple(xs) == [t |-> "tuple", v |-> xs]
Dict(items) == [t |-> "dict", v |-> items]
Item(k, x) == [k |-> k, v |-> x]

\* isinstance(x, string_types)
IsString(x) == x.t \in {"str", "chars", "text"}

\* dict.get(key, None): the value of the item whose key is key, None without one
DictGet(d, key) ==
  IF \E i \in 1..Len(d.v) : d.v[i].k = key
  THEN d.v[CHOOSE i \in 1..Len(d.v) : d.v[i].k = key].v
  ELSE None

\* d[key] = x: replaces the value of an existing key in place, appends a new key
DictSet(d, key, x) ==
  IF \E i \in 1..Len(d.v) : d.v[i].k = key
  THEN Dict([i \in 1..Len(d.v) |-> IF d.v[i].k = key THEN Item(key, x) ELSE d.v[i]])
  ELSE Dict(Append(d.v, Item(key, x)))

---------------------------------------------------------------------------
(* json.loads / json.dumps on token sequences *)

Tok(k, s) == [k |-> k, s |-> s]
LBracket == Tok("[", "")
RBracket == Tok("]", "")
LBrace == Tok("{", "")
RBrace == Tok("}", "")
Comma == Tok(",", "")
Colon == Tok(":", "")
NullTok == Tok("null", "")
StrTok(s) == Tok("string", s)

Tail2(s) == SubSeq(s, 2, Len(s))

ParseFail == [ok |-> FALSE, val |-> None, rest |-> <<>>]
ParseOk(x, rest) == [ok |-> TRUE, val |-> x, rest |-> rest]

RECURSIVE ParseValue(_), ParseElems(_, _), ParseMembers(_, _)

\* one JSON value at the head of toks, and the tokens after it
ParseValue(toks) ==
  IF toks = <<>> THEN ParseFail
  ELSE LET h == Head(toks)
           r == Tail2(toks)
       IN CASE h.k = "null" -> ParseOk(None, r)
            [] h.k = "string" -> ParseOk(Str(h.s), r)
            [] h.k = "[" ->
                 IF r # <<>> /\ Head(r) = RBracket
                 THEN ParseOk(List(<<>>), Tail2(r))
                 ELSE ParseElems(r, <<>>)
            [] h.k = "{" ->
                 IF r # <<>> /\ Head(r) = RBrace
                 THEN ParseOk(Dict(<<>>), Tail2(r))
                 ELSE ParseMembers(r, Dict(<<>>))
            [] OTHER -> ParseFail

\* the elements of an array after "[" or ",", up to and including "]"
ParseElems(toks, acc) ==
  LET e == ParseValue(toks)
  IN IF ~e.ok \/ e.rest = <<>> THEN ParseFail
     ELSE LET sep == Head(e.rest)
              xs == Append(acc, e.val)
          IN CASE sep = RBracket -> ParseOk(List(xs), Tail2(e.rest))
               [] sep = Comma -> ParseElems(Tail2(e.rest), xs)
               [] OTHER -> ParseFail

\* the members of an object after "{" or ",", up to and including "}"
ParseMembers(toks, acc) ==
  IF Len(toks) < 2 \/ toks[1].k # "string" \/ toks[2] # Colon THEN ParseFail
  ELSE LET e == ParseValue(SubSeq(toks, 3, Len(toks)))
       IN IF ~e.ok \/ e.rest = <<>> THEN ParseFail
          ELSE LET sep == Head(e.rest)
                   d == DictSet(acc, toks[1].s, e.val)
               IN CASE sep = RBrace -> ParseOk(d, Tail2(e.rest))
                    [] sep = Comma -> ParseMembers(Tail2(e.rest), d)
                    [] OTHER -> ParseFail

\* json.loads(s): the value, or a failure when s is not one JSON document
json_loads(s) ==
  LET p == ParseValue(s.v)
  IN IF p.ok /\ p.rest = <<>> THEN [ok |-> TRUE, val |-> p.val]
     ELSE [ok |-> FALSE, val |-> None]

RECURSIVE DumpTokens(_), DumpElems(_, _), DumpMembers(_, _)

DumpTokens(x) ==
  CASE x.t = "none" -> <<NullTok>>
    [] x.t = "str" -> <<StrTok(x.v)>>
    [] x.t = "list" -> <<LBracket>> \o DumpElems(x.v, 1) \o <<RBracket>>
    [] x.t = "dict" -> <<LBrace>> \o DumpMembers(x.v, 1) \o <<RBrace>>

DumpElems(xs, i) ==
  IF i > Len(xs) THEN <<>>
  ELSE DumpTokens(xs[i]) \o (IF i < Len(xs) THEN <<Comma>> ELSE <<>>)
       \o DumpElems(xs, i + 1)

DumpMembers(items, i) ==
  IF i > Len(items) THEN <<>>
  ELSE <<StrTok(items[i].k), Colon>> \o DumpTokens(items[i].v)
       \o (IF i < Len(items) THEN <<Comma>> ELSE <<>>)
       \o DumpMembers(items, i + 1)

\* json.dumps(x): the serialized form of a structured value
json_dumps(x) == Text(DumpTokens(x))

---------------------------------------------------------------------------
(* Exceptions *)

NoExc == [cls |-> "", msg |-> ""]
Exc(cls, msg) == [cls |-> cls, msg |-> msg]

\* frappe.throw(msg) raises frappe.ValidationError(msg)
throw(msg) == Exc("ValidationError", msg)

\* json.loads raises json.JSONDecodeError, a ValueError
JSONDecodeError == Exc("JSONDecodeError", "")

\* x.get(...) on a character of a str
NoGet == Exc("AttributeError", "'str' object has no attribute 'get'")

\* isinstance(e, ApiClientError)
IsApiClientError(e) == e.cls = "ApiClientError"

---------------------------------------------------------------------------
(* One invocation of send_email_with_template *)

\* the frame of a call that has not been made
Idle ==
  [pc |-> "idle", recipients |-> None, from_email |-> None, template |-> None,
   variables |-> None, subject |-> None, raise_exc |-> FALSE, in_try |-> FALSE,
   arg_recipients |-> None, arg_variables |-> None,
   steps |-> <<>>, api_key |-> None, sent |-> <<>>, log |-> <<>>,
   returned |-> FALSE, result |-> None, raised |-> NoExc]

\* the frame on entry, with the arguments bound
Enter(recipients, from_email, template, variables, subject, raise_exc) ==
  [Idle EXCEPT !.pc = "L31", !.recipients = recipients, !.from_email = from_email,
               !.template = template, !.variables = variables,
               !.subject = subject, !.raise_exc = raise_exc,
               !.arg_recipients = recipients, !.arg_variables = variables]

\* return x
Return(f, x) == [f EXCEPT !.pc = "done", !.returned = TRUE, !.result = x]

\* an exception leaving send_email_with_template
Propagate(f, e) == [f EXCEPT !.pc = "done", !.raised = e]

\* frappe.log_error(frappe.get_traceback(), title)
log_error(f, e, title) ==
  [f EXCEPT !.log = Append(@, [title |-> title, message |-> e])]

\* mutant: one except clause, every failure logged under "Mailchimp: Error"
Except_single_clause(f, e) == Return(log_error(f, e, "Mailchimp: Error"), None)

\* the except clauses of the silent branch; the function then falls off its end
Except(f, e) ==
  IF IsApiClientError(e)
  THEN Return(log_error(f, e, "Mailchimp: API Error"), None)
  ELSE Return(log_error(f, e, "Mailchimp: Error"), None)

\* an exception raised inside _send_message
Raise(f, e) == IF f.in_try THEN Except(f, e) ELSE Propagate(f, e)

\* mutant: recipients are never parsed
normalize_recipients_skipped(f) == [f EXCEPT !.pc = "L33"]

\* if isinstance(recipients, string_types): recipients = json.loads(recipients)
normalize_recipients(f) ==
  IF IsString(f.recipients)
  THEN LET p == json_loads(f.recipients)
       IN IF p.ok THEN [f EXCEPT !.pc = "L33", !.recipients = p.val]
          ELSE Propagate(f, JSONDecodeError)
  ELSE [f EXCEPT !.pc = "L33"]

\* mutant: variables are parsed inside the silent branch's try
normalize_variables_in_try(f) ==
  IF IsString(f.variables)
  THEN LET p == json_loads(f.variables)
       IN IF p.ok THEN [f EXCEPT !.pc = "L35", !.variables = p.val]
          ELSE IF f.raise_exc THEN Propagate(f, JSONDecodeError)
               ELSE Except(f, JSONDecodeError)
  ELSE [f EXCEPT !.pc = "L35"]

\* if isinstance(variables, string_types): variables = json.loads(variables)
normalize_variables(f) ==
  IF IsString(f.variables)
  THEN LET p == json_loads(f.variables)
       IN IF p.ok THEN [f EXCEPT !.pc = "L35", !.variables = p.val]
          ELSE Propagate(f, JSONDecodeError)
  ELSE [f EXCEPT !.pc = "L35"]

\* mutant: the try wraps the call in both branches
enter_send_message_always_try(f) == [f EXCEPT !.pc = "L49", !.in_try = TRUE]

\* if not raise_exc: try: _send_message(...)  else: _send_message(...)
enter_send_message(f) == [f EXCEPT !.pc = "L49", !.in_try = ~f.raise_exc]

\* mutant: the entries' email is not checked
_validate_recipients_no_email(recipients) ==
  IF recipients = None \/ Len(recipients.v) = 0
  THEN throw("Recipients must be defined")
  ELSE NoExc

\* the exception _validate_recipients raises, NoExc when it returns
_validate_recipients(recipients) ==
  IF recipients = None \/ Len(recipients.v) = 0
  THEN throw("Recipients must be defined")
  ELSE IF IsString(recipients) THEN NoGet
  ELSE IF \E i \in 1..Len(recipients.v) :
            DictGet(recipients.v[i], "email") = None
       THEN throw("Email must be specified")
       ELSE NoExc

\* bool(x) of a list or None
Truthy(x) == x # None /\ Len(x.v) > 0

\* mutant: variables are required
_validate_template_requires_variables(template, variables) ==
  IF template = None \/ template.v = ""
  THEN throw("Template name missing")
  ELSE IF ~Truthy(variables)
          \/ ~(\A i \in 1..Len(variables.v) :
                 /\ DictGet(variables.v[i], "name") # None
                 /\ DictGet(variables.v[i], "content") # None)
       THEN throw("Template Content invalid. Make sure 'name' and 'content' are specified as strings")
       ELSE NoExc

\* the exception _validate_template raises, NoExc when it returns
_validate_template(template, variables) ==
  IF template = None \/ template.v = ""
  THEN throw("Template name missing")
  ELSE IF Truthy(variables) /\ IsString(variables) THEN NoGet
  ELSE IF Truthy(variables) /\ Len(variables.v) > 0
          /\ ~(\A i \in 1..Len(variables.v) :
                 /\ DictGet(variables.v[i], "name") # None
                 /\ DictGet(variables.v[i], "content") # None)
       THEN throw("Template Content invalid. Make sure 'name' and 'content' are specified as strings")
       ELSE NoExc

\* mutant: the stored value is returned unchecked
get_mailchimp_api_key_unchecked(api_key) == NoExc

\* the exception get_mailchimp_api_key raises for the stored value, NoExc
\* when it returns it
get_mailchimp_api_key(api_key) ==
  IF api_key = None THEN throw("Mailchimp API Key not specified") ELSE NoExc

\* mutant: the variables travel as template_content, not as merge variables
Payload_vars_as_content(recipients, subject, from_email, template, variables) ==
  Dict(<<Item("template_name", template),
         Item("template_content", variables),
         Item("message",
              Dict(<<Item("to", recipients),
                     Item("subject", subject),
                     Item("from_email", from_email)>>))>>)

\* the argument of client.messages.send_template
Payload(recipients, subject, from_email, template, variables) ==
  Dict(<<Item("template_name", template),
         Item("template_content", List(<<>>)),
         Item("message",
              Dict(<<Item("to", recipients),
                     Item("subject", subject),
                     Item("from_email", from_email),
                     Item("merge_language", Str("handlebars")),
                     Item("global_merge_vars", variables)>>))>>)

\* _validate_recipients(recipients) in _send_message
validate_recipients_step(f) ==
  LET g == [f EXCEPT !.steps = Append(@, "validate_recipients")]
      e == _validate_recipients(f.recipients)
  IN IF e # NoExc THEN Raise(g, e) ELSE [g EXCEPT !.pc = "L50"]

\* _validate_template(template, variables) in _send_message
validate_template_step(f) ==
  LET g == [f EXCEPT !.steps = Append(@, "validate_template")]
      e == _validate_template(f.template, f.variables)
  IN IF e # NoExc THEN Raise(g, e) ELSE [g EXCEPT !.pc = "L52"]

\* client = mailchimp_transactional.Client(get_mailchimp_api_key()), where
\* frappe.get_value returns stored
get_api_key_step(f, stored) ==
  LET g == [f EXCEPT !.steps = Append(@, "get_api_key")]
      e == get_mailchimp_api_key(stored)
  IN IF e # NoExc THEN Raise(g, e) ELSE [g EXCEPT !.pc = "L53", !.api_key = stored]

\* mutant: a failed send is tried once more before the failure is raised
send_template_step_retry(f, outcome) ==
  LET p == Payload(f.recipients, f.subject, f.from_email, f.template, f.variables)
      g == [f EXCEPT !.steps = Append(@, "send_template"), !.sent = Append(@, p)]
  IN IF outcome.exc # NoExc
     THEN Raise([g EXCEPT !.sent = Append(@, p)], outcome.exc)
     ELSE Return(g, outcome.response)

\* return client.messages.send_template({...}), where the provider answers
\* with outcome: a response, or an exception
send_template_step(f, outcome) ==
  LET g == [f EXCEPT !.steps = Append(@, "send_template"),
                     !.sent = Append(@, Payload(f.recipients, f.subject,
                                                f.from_email, f.template,
                                                f.variables))]
  IN IF outcome.exc # NoExc THEN Raise(g, outcome.exc)
     ELSE Return(g, outcome.response)

\* the statement at f.pc, executed with the environment's stored key and the
\* provider's outcome
Step(f, stored, outcome) ==
  CASE f.pc = "L31" -> normalize_recipients(f)
    [] f.pc = "L33" -> normalize_variables(f)
    [] f.pc = "L35" -> enter_send_message(f)
    [] f.pc = "L49" -> validate_recipients_step(f)
    [] f.pc = "L50" -> validate_template_step(f)
    [] f.pc = "L52" -> get_api_key_step(f, stored)
    [] f.pc = "L53" -> send_template_step(f, outcome)

---------------------------------------------------------------------------
(* Inputs *)

\* the sequences over S of length at most n
SeqsUpTo(S, n) == UNION {[1..k -> S] : k \in 0..n}

RecipientDicts ==
  { Dict(<<Item("email", Str("a@example.com"))>>),
    Dict(<<Item("email", Str("b@example.com")), Item("name", Str("Jo"))>>),
    Dict(<<Item("email", None)>>),
    Dict(<<Item("name", Str("Jo"))>>) }

VariableDicts ==
  { Dict(<<Item("name", Str("first_name")), Item("content", Str("Jo"))>>),
    Dict(<<Item("name", Str("first_name"))>>),
    Dict(<<Item("name", None), Item("content", Str("Jo"))>>) }

RecipientValues ==
  {None} \cup {List(xs) : xs \in SeqsUpTo(RecipientDicts, MaxRecipients)}

VariableValues ==
  {None} \cup {List(xs) : xs \in SeqsUpTo(VariableDicts, MaxVariables)}

\* texts json.loads rejects: the empty string, a truncated document, a
\* trailing comma, extra data after the document
MalformedTexts ==
  { Text(<<>>),
    Text(<<LBracket, LBrace, StrTok("email"), Colon>>),
    Text(<<LBracket, LBrace, RBrace, Comma, RBracket>>),
    Text(<<LBracket, RBracket, RBracket>>) }

\* texts json.loads accepts that json.dumps does not produce: a repeated key
RepeatedKeyTexts ==
  { Text(<<LBracket, LBrace, StrTok("email"), Colon, NullTok, Comma,
           StrTok("email"), Colon, StrTok("a@example.com"), RBrace, RBracket>>),
    Text(<<LBracket, LBrace, StrTok("name"), Colon, StrTok("first_name"), Comma,
           StrTok("content"), Colon, StrTok("Jo"), Comma,
           StrTok("content"), Colon, NullTok, RBrace, RBracket>>) }

RecipientInputs ==
  RecipientValues \cup {json_dumps(x) : x \in RecipientValues}
    \cup MalformedTexts \cup RepeatedKeyTexts

VariableInputs ==
  VariableValues \cup {json_dumps(x) : x \in VariableValues}
    \cup MalformedTexts \cup RepeatedKeyTexts

Templates == {None, Str(""), Str("welcome")}
Subjects == {None, Str("Hello")}
Senders == {Str("no-reply@example.com")}

\* what frappe.get_value returns for transactional_email_api_key
ApiKeys == {None, Str(""), Str("md-key")}

Response(status) ==
  List(<<Dict(<<Item("email", Str("a@example.com")), Item("status", Str(status))>>)>>)

\* what client.messages.send_template does: returns the provider's response,
\* raises ApiClientError, or raises another exception
ProviderOutcomes ==
  { [response |-> Response("sent"), exc |-> NoExc],
    [response |-> Response("queued"), exc |-> NoExc],
    [response |-> None, exc |-> Exc("ApiClientError", "Invalid API key")],
    [response |-> None, exc |-> Exc("ConnectionError", "timed out")] }

NoEnv == [api_key |-> None, outcome |-> [response |-> None, exc |-> NoExc]]
NoDoc == [t |-> "doc", v |-> <<>>]
NotRun == [pc |-> "idle", result |-> None]

---------------------------------------------------------------------------
(* Specification of one call of send_email_with_template *)

Init ==
  /\ call \in {Enter(r, s, t, v, subj, x) :
                 r \in RecipientInputs, s \in Senders, t \in Templates,
                 v \in VariableInputs, subj \in Subjects, x \in BOOLEAN}
  /\ twin = Idle
  /\ env = NoEnv
  /\ doc = NoDoc
  /\ template_vars = NotRun

NormalizeRecipients ==
  /\ call.pc = "L31"
  /\ call' = normalize_recipients(call)
  /\ UNCHANGED <<twin, env, doc, template_vars>>

NormalizeVariables ==
  /\ call.pc = "L33"
  /\ call' = normalize_variables(call)
  /\ UNCHANGED <<twin, env, doc, template_vars>>

EnterSendMessage ==
  /\ call.pc = "L35"
  /\ call' = enter_send_message(call)
  /\ UNCHANGED <<twin, env, doc, template_vars>>

ValidateRecipients ==
  /\ call.pc = "L49"
  /\ call' = validate_recipients_step(call)
  /\ UNCHANGED <<twin, env, doc, template_vars>>

ValidateTemplate ==
  /\ call.pc = "L50"
  /\ call' = validate_template_step(call)
  /\ UNCHANGED <<twin, env, doc, template_vars>>

GetApiKey(stored) ==
  /\ call.pc = "L52"
  /\ call' = get_api_key_step(call, stored)
  /\ env' = [env EXCEPT !.api_key = stored]
  /\ UNCHANGED <<twin, doc, template_vars>>

SendTemplate(outcome) ==
  /\ call.pc = "L53"
  /\ call' = send_template_step(call, outcome)
  /\ env' = [env EXCEPT !.outcome = outcome]
  /\ UNCHANGED <<twin, doc, template_vars>>

Next ==
  \/ NormalizeRecipients
  \/ NormalizeVariables
  \/ EnterSendMessage
  \/ ValidateRecipients
  \/ ValidateTemplate
  \/ \E stored \in ApiKeys : GetApiKey(stored)
  \/ \E outcome \in ProviderOutcomes : SendTemplate(outcome)

Spec == Init /\ [][Next]_vars

---------------------------------------------------------------------------
(* Specification of two calls that differ only in the form of recipients  *)
(* and variables: call is given serialized text, twin the structured      *)
(* values; both run against the same stored key and provider outcome.     *)

FormEnvs ==
  { [api_key |-> k, outcome |-> o] :
      k \in {None, Str("md-key")},
      o \in { [response |-> Response("sent"), exc |-> NoExc],
              [response |-> None, exc |-> Exc("ApiClientError", "Invalid API key")],
              [response |-> None, exc |-> Exc("ConnectionError", "timed out")] } }

InitForms ==
  /\ \E r \in RecipientValues, v \in VariableValues,
        textR \in BOOLEAN, textV \in BOOLEAN,
        s \in Senders, t \in {Str(""), Str("welcome")}, x \in BOOLEAN :
       /\ textR \/ textV
       /\ call = Enter(IF textR THEN json_dumps(r) ELSE r, s, t,
                       IF textV THEN json_dumps(v) ELSE v, Str("Hello"), x)
       /\ twin = Enter(r, s, t, v, Str("Hello"), x)
  /\ env \in FormEnvs
  /\ doc = NoDoc
  /\ template_vars = NotRun

RunSerialized ==
  /\ call.pc # "done"
  /\ call' = Step(call, env.api_key, env.outcome)
  /\ UNCHANGED <<twin, env, doc, template_vars>>

RunStructured ==
  /\ call.pc = "done"
  /\ twin.pc # "done"
  /\ twin' = Step(twin, env.api_key, env.outcome)
  /\ UNCHANGED <<call, env, doc, template_vars>>

NextForms == RunSerialized \/ RunStructured

SpecForms == InitForms /\ [][NextForms]_vars

---------------------------------------------------------------------------
(* create_vars_from_doc *)
(* Field names and the doctype are sequences of characters, so that        *)
(* lower(), frappe.scrub and + act on them; other values are atomic.       *)

\* str.lower() on one character of the alphabet in use
LowerChar(c) ==
  CASE c = "L" -> "l"
    [] c = "S" -> "s"
    [] c = "O" -> "o"
    [] OTHER -> c

\* str.lower()
lower(cs) == [i \in 1..Len(cs) |-> LowerChar(cs[i])]

\* frappe.scrub(txt): txt.replace(" ", "_").replace("-", "_").lower()
scrub(cs) ==
  lower([i \in 1..Len(cs) |-> IF cs[i] \in {" ", "-"} THEN "_" ELSE cs[i]])

K_name == <<"n", "a", "m", "e">>
K_doctype == <<"d", "o", "c", "t", "y", "p", "e">>

\* Document.as_dict(convert_dates_to_str=True, no_nulls=True): the fields in
\* order, dates as their str(), fields that are None left out
RECURSIVE AsDictItems(_, _)
AsDictItems(items, i) ==
  IF i > Len(items) THEN <<>>
  ELSE LET it == items[i]
       IN (CASE it.v = None -> <<>>
             [] it.v.t = "date" -> <<Item(it.k, Str(it.v.v))>>
             [] OTHER -> <<it>>)
          \o AsDictItems(items, i + 1)

as_dict(d) == Dict(AsDictItems(d.v, 1))

\* frappe.utils.get_datetime_str(v)
get_datetime_str(x) == Str(x.v)

\* mutant: only lists and dicts are skipped, tuples are forwarded
RECURSIVE VarsLoop_keeps_tuples(_, _, _)
VarsLoop_keeps_tuples(items, doctype, i) ==
  IF i > Len(items) THEN <<>>
  ELSE LET k == IF items[i].k = <<"n", "a", "m", "e">>
                THEN scrub(doctype) \o <<"_">> \o items[i].k
                ELSE items[i].k
           x == items[i].v
       IN (IF x.t \in {"list", "dict"} THEN <<>>
           ELSE <<Dict(<<Item("name", Chars(k)), Item("content", x)>>)>>)
          \o VarsLoop_keeps_tuples(items, doctype, i + 1)

\* the for loop of create_vars_from_doc from item i on
RECURSIVE VarsLoop(_, _, _)
VarsLoop(items, doctype, i) ==
  IF i > Len(items) THEN <<>>
  ELSE LET k == IF items[i].k = K_name
                THEN scrub(doctype) \o <<"_">> \o items[i].k
                ELSE items[i].k
           x == items[i].v
       IN (IF x.t \in {"list", "tuple", "dict"} THEN <<>>
           ELSE LET c == IF x.t = "date" THEN get_datetime_str(x) ELSE x
                IN <<Dict(<<Item("name", Chars(k)), Item("content", c)>>)>>)
          \o VarsLoop(items, doctype, i + 1)

\* create_vars_from_doc(doc); d is None for an absent document
create_vars_from_doc(d) ==
  IF d = None THEN List(<<>>)
  ELSE LET dd == as_dict(d)
       IN IF Len(dd.v) = 0 THEN List(<<>>)
          ELSE List(VarsLoop(dd.v, lower(DictGet(dd, K_doctype).v), 1))

Document(items) == [t |-> "doc", v |-> items]

Doctypes ==
  { Chars(<<"L", "e", "a", "d">>),
    Chars(<<"S", "a", "l", "e", "s", " ", "O", "r", "d", "e", "r">>) }

DocNames == {None, Str("L-0001")}

\* the fields a document may carry besides doctype and name
OtherFields ==
  { Item(<<"s", "c", "o", "r", "e">>, Num(7)),
    Item(<<"t", "a", "g", "s">>, List(<<Str("a"), Str("b")>>)),
    Item(<<"d", "u", "e">>, Date("2020-01-31")),
    Item(<<"n", "o", "t", "e">>, None),
    Item(<<"g", "e", "o">>, Dict(<<Item("lat", Str("1"))>>)),
    Item(<<"p", "a", "i", "r">>, Tuple(<<Str("a"), Str("b")>>)) }

DistinctKeys(items) ==
  \A i, j \in 1..Len(items) : i # j => items[i].k # items[j].k

\* absent, a document without fields, and documents that carry doctype,
\* name and other fields, with doctype first or last
Docs ==
  {None, Document(<<>>)}
    \cup { Document(<<Item(K_doctype, dt), Item(K_name, n)>> \o fs) :
             dt \in Doctypes, n \in DocNames,
             fs \in {x \in SeqsUpTo(OtherFields, MaxFields) : DistinctKeys(x)} }
    \cup { Document(<<Item(K_name, n)>> \o fs \o <<Item(K_doctype, dt)>>) :
             dt \in Doctypes, n \in DocNames,
             fs \in {x \in SeqsUpTo(OtherFields, MaxFields) : DistinctKeys(x)} }

InitDoc ==
  /\ doc \in Docs
  /\ template_vars = NotRun
  /\ call = Idle
  /\ twin = Idle
  /\ env = NoEnv

CreateVarsFromDoc ==
  /\ template_vars.pc = "idle"
  /\ template_vars' = [pc |-> "done", result |-> create_vars_from_doc(doc)]
  /\ UNCHANGED <<call, twin, env, doc>>

NextDoc == CreateVarsFromDoc

SpecDoc == InitDoc /\ [][NextDoc]_vars

---------------------------------------------------------------------------
(* The vocabulary of the properties, stated on the arguments of the call   *)

Done == call.pc = "done"

\* a serialized argument that does not parse
Malformed(x) == x.t = "text" /\ ~json_loads(x).ok

\* the structured value an argument stands for
ValueOf(x) == IF x.t = "text" THEN json_loads(x).val ELSE x

WellFormed == ~Malformed(call.arg_recipients) /\ ~Malformed(call.arg_variables)

GivenRecipients == ValueOf(call.arg_recipients)
GivenVariables == ValueOf(call.arg_variables)

\* the entry carries field with a value that is not null
Carries(entry, field) ==
  \E j \in 1..Len(entry.v) : entry.v[j].k = field /\ entry.v[j].v # None

MissingRecipients == GivenRecipients = None \/ GivenRecipients = List(<<>>)

MissingEmail ==
  /\ ~MissingRecipients
  /\ \E i \in 1..Len(GivenRecipients.v) : ~Carries(GivenRecipients.v[i], "email")

MissingTemplate == call.template \in {None, Str("")}

InvalidTemplateContent ==
  /\ GivenVariables # None
  /\ \E i \in 1..Len(GivenVariables.v) :
       ~Carries(GivenVariables.v[i], "name") \/ ~Carries(GivenVariables.v[i], "content")

RecipientsValid == ~MissingRecipients /\ ~MissingEmail
TemplateValid == ~MissingTemplate /\ ~InvalidTemplateContent
InputsValid == WellFormed /\ RecipientsValid /\ TemplateValid

\* the validation error of the first check that fails
FirstValidationError ==
  CASE MissingRecipients -> Exc("ValidationError", "Recipients must be defined")
    [] MissingEmail -> Exc("ValidationError", "Email must be specified")
    [] MissingTemplate -> Exc("ValidationError", "Template name missing")
    [] OTHER -> Exc("ValidationError", "Template Content invalid. Make sure 'name' and 'content' are specified as strings")

MissingCredential == Exc("ValidationError", "Mailchimp API Key not specified")

Reached(step) == \E i \in 1..Len(call.steps) : call.steps[i] = step

\* the configuration lookup ran and returned no credential
CredentialAbsent == Reached("get_api_key") /\ env.api_key = None

\* the provider was called and the call raised
ProviderFailed == Reached("send_template") /\ env.outcome.exc # NoExc
ProviderSucceeded == Reached("send_template") /\ env.outcome.exc = NoExc

\* the call raised e to its caller: nothing returned, nothing logged
Propagated(e) ==
  call.raised = e /\ ~call.returned /\ call.log = <<>>

\* the call swallowed e: it returned no result and logged e once under title
Suppressed(e, title) ==
  /\ call.raised = NoExc
  /\ call.returned /\ call.result = None
  /\ call.log = <<[title |-> title, message |-> e]>>

---------------------------------------------------------------------------
(* C1 *)

\* C1 as stated: whenever the inputs fail validation, the validation error is
\* raised to the caller in raise mode and in silent mode alike, uncaught and
\* unlogged.
C1_AsStated ==
  (Done /\ WellFormed /\ ~(RecipientsValid /\ TemplateValid))
    => /\ call.raised.cls = "ValidationError"
       /\ ~call.returned
       /\ call.log = <<>>

\* C1, amended: when the inputs fail validation the provider is not called;
\* in raise mode the error of the first failing check is raised to the caller
\* and nothing is logged; in silent mode that error is caught, logged once
\* under "Mailchimp: Error", and the call returns no result.
C1_ValidationErrorPolicy ==
  (Done /\ WellFormed /\ ~(RecipientsValid /\ TemplateValid))
    => /\ call.sent = <<>>
       /\ IF call.raise_exc
          THEN Propagated(FirstValidationError)
          ELSE Suppressed(FirstValidationError, "Mailchimp: Error")

C1_Witness ==
  /\ Done /\ WellFormed /\ MissingEmail /\ ~call.raise_exc
  /\ Len(call.log) = 1 /\ call.returned

---------------------------------------------------------------------------
(* C2 *)

\* C2: in silent mode, with valid inputs and a credential, a failing provider
\* call makes send return no result, raise nothing and write exactly one log
\* entry, labelled "Mailchimp: API Error" exactly when the failure is an
\* ApiClientError and "Mailchimp: Error" otherwise.
C2_SilentProviderFailure ==
  (Done /\ ~call.raise_exc /\ InputsValid /\ env.api_key # None /\ ProviderFailed)
    => /\ call.returned /\ call.result = None
       /\ call.raised = NoExc
       /\ Len(call.log) = 1
       /\ call.log[1].message = env.outcome.exc
       /\ (call.log[1].title = "Mailchimp: API Error"
             <=> env.outcome.exc.cls = "ApiClientError")
       /\ (call.log[1].title = "Mailchimp: Error"
             <=> env.outcome.exc.cls # "ApiClientError")

C2_Witness ==
  /\ Done /\ ~call.raise_exc /\ InputsValid /\ ProviderFailed
  /\ env.outcome.exc.cls = "ApiClientError"
  /\ Len(call.log) = 1

---------------------------------------------------------------------------
(* C3 *)

\* C3: in raise mode a failing provider call, of either kind, reaches the
\* caller as raised; no result is returned and nothing is logged.
C3_RaiseProviderFailure ==
  (Done /\ call.raise_exc /\ ProviderFailed)
    => Propagated(env.outcome.exc)

C3_Witness ==
  /\ Done /\ call.raise_exc /\ ProviderFailed
  /\ call.raised.cls = "ConnectionError"

---------------------------------------------------------------------------
(* C4 *)

\* C4 as stated: without a stored credential, send with valid inputs raises
\* the missing-credential error to the caller whatever raise_exc is, never
\* suppressed or logged, and the provider is not called.
C4_AsStated ==
  (Done /\ InputsValid /\ CredentialAbsent)
    => Propagated(MissingCredential) /\ call.sent = <<>>

\* C4, amended: without a stored credential the provider is not called; in
\* raise mode the missing-credential error is raised to the caller and
\* nothing is logged; in silent mode it is caught, logged once under
\* "Mailchimp: Error", and the call returns no result.
C4_MissingCredentialPolicy ==
  (Done /\ InputsValid /\ CredentialAbsent)
    => /\ call.sent = <<>>
       /\ ~Reached("send_template")
       /\ IF call.raise_exc
          THEN Propagated(MissingCredential)
          ELSE Suppressed(MissingCredential, "Mailchimp: Error")

C4_Witness ==
  /\ Done /\ InputsValid /\ CredentialAbsent /\ ~call.raise_exc
  /\ call.log # <<>>

---------------------------------------------------------------------------
(* C5 *)

\* C5: when the serialized recipients or variables do not parse, the parse
\* error is raised to the caller in silent and in raise mode, and no
\* validation, credential lookup, provider call or log entry has happened.
C5_ParseErrorPropagates ==
  (Done /\ ~WellFormed)
    => /\ Propagated(JSONDecodeError)
       /\ call.steps = <<>>
       /\ call.sent = <<>>

C5_Witness ==
  /\ Done /\ ~call.raise_exc
  /\ ~Malformed(call.arg_recipients) /\ call.arg_recipients.t = "text"
  /\ Malformed(call.arg_variables)
  /\ call.raised = JSONDecodeError

---------------------------------------------------------------------------
(* C6 *)

\* one of the steps of the call failed: validation, the credential lookup or
\* the provider call
SendFailed ==
  WellFormed /\ (~(RecipientsValid /\ TemplateValid) \/ CredentialAbsent \/ ProviderFailed)

\* C6 as stated: every invocation makes exactly one provider call and writes
\* at most one log entry, and it writes one only in silent mode when the
\* provider call itself failed.
C6_AsStated ==
  Done => /\ Len(call.sent) = 1
          /\ Len(call.log) <= 1
          /\ (call.log # <<>> => ~call.raise_exc /\ ProviderFailed)

\* C6, amended: every invocation makes at most one provider call, and makes
\* one exactly when the arguments parse, both validations pass and a
\* credential is stored; it writes at most one log entry, and writes one
\* exactly when it is in silent mode and validation, the credential lookup or
\* the provider call failed.
C6_SideEffects ==
  /\ Len(call.sent) <= 1
  /\ Len(call.log) <= 1
  /\ Done => /\ (Len(call.sent) = 1 <=>
                   InputsValid /\ Reached("get_api_key") /\ env.api_key # None)
             /\ (Len(call.log) = 1 <=> ~call.raise_exc /\ SendFailed)

C6_Witness ==
  /\ Done /\ call.sent = <<>> /\ Len(call.log) = 1
  /\ ~call.raise_exc /\ MissingTemplate /\ RecipientsValid

---------------------------------------------------------------------------
(* C7 *)

\* C7: for valid inputs, a stored credential and a provider call that
\* succeeds, in either mode the provider receives one payload with
\* template_name the template, an empty template_content, message.to the
\* recipients, message.subject the subject, message.from_email the sender,
\* merge_language "handlebars" and global_merge_vars the variables, and send
\* returns the provider's response unchanged.
C7_PayloadAndResponse ==
  (Done /\ InputsValid /\ ProviderSucceeded)
    => /\ Len(call.sent) = 1
       /\ LET p == call.sent[1]
              m == DictGet(p, "message")
          IN /\ DictGet(p, "template_name") = call.template
             /\ DictGet(p, "template_content") = List(<<>>)
             /\ DictGet(m, "to") = GivenRecipients
             /\ DictGet(m, "subject") = call.subject
             /\ DictGet(m, "from_email") = call.from_email
             /\ DictGet(m, "merge_language") = Str("handlebars")
             /\ DictGet(m, "global_merge_vars") = GivenVariables
             /\ Len(p.v) = 3 /\ Len(m.v) = 5
       /\ call.returned /\ call.result = env.outcome.response
       /\ call.raised = NoExc /\ call.log = <<>>

C7_Witness ==
  /\ Done /\ InputsValid /\ ProviderSucceeded
  /\ call.arg_recipients.t = "text" /\ Len(GivenRecipients.v) = 2
  /\ GivenVariables # None /\ Len(GivenVariables.v) = 1
  /\ call.result = Response("queued")

---------------------------------------------------------------------------
(* C10 *)

StepOrder == <<"validate_recipients", "validate_template", "get_api_key", "send_template">>

\* how many steps run: up to and including the first that fails
StepsRun ==
  CASE ~WellFormed -> 0
    [] ~RecipientsValid -> 1
    [] ~TemplateValid -> 2
    [] CredentialAbsent -> 3
    [] OTHER -> 4

\* C10: the steps of every execution are a prefix of recipients validation,
\* template validation, credential lookup, provider call, ending with the
\* first step that fails; the credential is looked up only after both
\* validations passed, the provider is called only with valid recipients,
\* template and variables and a stored credential, and null or empty
\* variables pass validation and reach the provider as given.
C10_StepOrder ==
  /\ \E n \in 0..4 : call.steps = SubSeq(StepOrder, 1, n)
  /\ Reached("get_api_key") => RecipientsValid /\ TemplateValid
  /\ Reached("send_template") => InputsValid /\ env.api_key # None
  /\ Done => call.steps = SubSeq(StepOrder, 1, StepsRun)
  /\ (Done /\ WellFormed /\ RecipientsValid /\ ~MissingTemplate
        /\ GivenVariables \in {None, List(<<>>)}
        /\ Reached("get_api_key") /\ env.api_key # None)
       => /\ Len(call.sent) = 1
          /\ DictGet(DictGet(call.sent[1], "message"), "global_merge_vars")
               = GivenVariables

C10_Witness ==
  /\ Done /\ GivenVariables = None /\ Len(call.sent) = 1
  /\ call.steps = StepOrder

---------------------------------------------------------------------------
(* C8, under SpecForms *)

\* what a call did, as its caller and its collaborators see it
Outcome(f) ==
  [sent |-> f.sent, returned |-> f.returned, result |-> f.result,
   raised |-> f.raised, log |-> f.log]

\* C8: a call given recipients and variables as serialized text and a call
\* given the values that text stands for, all else equal, send the same
\* payloads and end the same way: same result or error, same log entries.
C8_FormsAgree ==
  (call.pc = "done" /\ twin.pc = "done")
    => /\ call.arg_recipients.t = "text" \/ call.arg_variables.t = "text"
       /\ twin.arg_recipients = ValueOf(call.arg_recipients)
       /\ twin.arg_variables = ValueOf(call.arg_variables)
       /\ Outcome(call) = Outcome(twin)

C8_Witness ==
  /\ call.pc = "done" /\ twin.pc = "done"
  /\ call.arg_recipients.t = "text" /\ call.arg_variables.t = "text"
  /\ twin.arg_recipients.t = "list" /\ twin.arg_variables.t = "list"
  /\ Len(twin.arg_recipients.v) = 2 /\ Len(twin.arg_variables.v) = 1
  /\ Len(call.sent) = 1 /\ call.returned /\ call.result # None

---------------------------------------------------------------------------
(* C9, under SpecDoc *)

VarsDone == template_vars.pc = "done"

Entry(name, content) == Dict(<<Item("name", Chars(name)), Item("content", content)>>)

LeadExample ==
  Document(<<Item(K_doctype, Chars(<<"L", "e", "a", "d">>)),
             Item(K_name, Str("L-0001")),
             Item(<<"s", "c", "o", "r", "e">>, Num(7)),
             Item(<<"t", "a", "g", "s">>, List(<<Str("a"), Str("b")>>))>>)

K_lead_name == <<"l", "e", "a", "d", "_", "n", "a", "m", "e">>
K_sales_order_name ==
  <<"s", "a", "l", "e", "s", "_", "o", "r", "d", "e", "r", "_", "n", "a", "m", "e">>
K_sales_order_name_spaced ==
  <<"s", "a", "l", "e", "s", " ", "o", "r", "d", "e", "r", "_", "n", "a", "m", "e">>

DoctypeOf(d) == (CHOOSE it \in {d.v[i] : i \in 1..Len(d.v)} : it.k = K_doctype).v

\* a field that is forwarded: it has a value, and the value is a scalar
Forwarded(it) == it.v # None /\ it.v.t \notin {"list", "tuple", "dict"}
ForwardedNotDoctype(it) == Forwarded(it) /\ it.k # K_doctype

\* the entries for the fields fs of d, one per field in order, the name field
\* under nameKey and dates as strings
EntriesFor(fs, nameKey) ==
  [i \in 1..Len(fs) |->
     Entry(IF fs[i].k = K_name THEN nameKey ELSE fs[i].k,
           IF fs[i].v.t = "date" THEN Str(fs[i].v.v) ELSE fs[i].v)]

\* C9 as stated: an empty or absent record yields the empty sequence; any
\* other yields one entry per scalar field in field order, the name field
\* under <lowercased type>_name, composite fields dropped and nothing else,
\* so that the Lead example yields exactly its lead_name and score entries.
C9_AsStated ==
  VarsDone =>
    /\ doc \in {None, Document(<<>>)} => template_vars.result = List(<<>>)
    /\ doc \notin {None, Document(<<>>)} =>
         template_vars.result =
           List(EntriesFor(SelectSeq(doc.v, ForwardedNotDoctype),
                           IF DoctypeOf(doc) = Chars(<<"L", "e", "a", "d">>)
                           THEN K_lead_name ELSE K_sales_order_name_spaced))
    /\ doc = LeadExample =>
         template_vars.result =
           List(<<Entry(K_lead_name, Str("L-0001")),
                  Entry(<<"s", "c", "o", "r", "e">>, Num(7))>>)

\* C9, amended: an empty or absent record yields the empty sequence; any other
\* yields, in field order, one entry per field whose value is neither null
\* nor a list, tuple or mapping, the doctype field included; the name field
\* is emitted under <type>_name with the type lowercased and its spaces and
\* hyphens replaced by underscores; so the Lead example yields the entries
\* doctype: Lead, lead_name: L-0001, score: 7.
C9_VarsFromRecord ==
  VarsDone =>
    /\ doc \in {None, Document(<<>>)} => template_vars.result = List(<<>>)
    /\ doc \notin {None, Document(<<>>)} =>
         template_vars.result =
           List(EntriesFor(SelectSeq(doc.v, Forwarded),
                           IF DoctypeOf(doc) = Chars(<<"L", "e", "a", "d">>)
                           THEN K_lead_name ELSE K_sales_order_name))
    /\ doc = LeadExample =>
         template_vars.result =
           List(<<Entry(K_doctype, Chars(<<"L", "e", "a", "d">>)),
                  Entry(K_lead_name, Str("L-0001")),
                  Entry(<<"s", "c", "o", "r", "e">>, Num(7))>>)

C9_Witness ==
  /\ VarsDone /\ doc = LeadExample
  /\ Len(template_vars.result.v) = 3

===========================================================================
